---- MODULE Spec2Model ----
(***************************************************************************)
(* Model of the trajectory-rating page, static/js/trajectory_rating.js.    *)
(*                                                                         *)
(* One page view owns one TrajectoryRating object.  The state is the       *)
(* object's fields, the parts of the DOM the script reads and writes, the  *)
(* requests in flight, the pending auto-advance timers and the navigation  *)
(* the script asked the browser for.  Every action is one event-loop turn: *)
(* a handler up to its first await, or the continuation after an await.    *)
(*                                                                         *)
(* A navigation (window.location.href = ...) replaces the page: the next   *)
(* view constructs a new object, so fields, in-flight continuations and    *)
(* timers of the old view are gone.  Until the browser commits it, the old *)
(* view keeps running.                                                     *)
(***************************************************************************)
EXTENDS Integers, Sequences, FiniteSets, TLC

\* ---- bounds ----
MaxTotal == 2        \* largest total-trajectories-value the page supplies
MaxRequests == 2     \* rate-trajectory requests sent from one page view
MaxViewTotal == 8     \* largest total-trajectories-value of a page view studied alone
MaxTimers == 1       \* skip clicks whose timer is still pending
MaxRegenerate == 1   \* regenerate-gif requests awaiting their response
MaxAverageTenths == 50   \* largest average, in tenths, given to getQualityLevel
MaxUploads == 2      \* calls of uploadAndAnalyze on the upload page

\* ---- the page the script runs in (templates are not part of the script) ----
\* Elements the script looks up with getElementById and guards with `if`.
HasProgressBar == TRUE      \* #progress-fill and #progress-percent
HasCompletionModal == TRUE  \* #completion-modal
HasFinalStats == TRUE       \* #final-stats
HasGifImg == TRUE           \* #trajectory-gif
\* TrajectoryRating has no method calculateAverageRating: calling it throws.
HasCalculateAverageRating == FALSE
\* #uploadBtn is disabled until handleFileSelection enables it.
UploadBtnStartsDisabled == TRUE

\* ---- JavaScript values ----
Num(n) == [k |-> "num", v |-> n]
NaN == [k |-> "nan", v |-> 0]
Infinity == [k |-> "inf", v |-> 0]
Null == [k |-> "null", v |-> 0]
IsNum(x) == x.k = "num"

\* !x for a number or null
Falsy(x) == x.k \in {"nan", "null"} \/ (x.k = "num" /\ x.v = 0)

\* a string field: null, or the characters of a string
NoString == [set |-> FALSE, s |-> <<>>]
Str(s) == [set |-> TRUE, s |-> s]
FalsyStr(x) == ~x.set \/ x.s = <<>>

DigitChars == <<"0", "1", "2", "3", "4", "5", "6", "7", "8", "9">>
IsDigit(c) == \E i \in 1..10 : DigitChars[i] = c
DigitVal(c) == (CHOOSE i \in 1..10 : DigitChars[i] = c) - 1

RECURSIVE SkipSpaces(_)
SkipSpaces(s) == IF s # <<>> /\ Head(s) = " " THEN SkipSpaces(Tail(s)) ELSE s

RECURSIVE ParseDigits(_, _)
ParseDigits(s, acc) ==
    IF s = <<>> \/ ~IsDigit(Head(s)) THEN acc
    ELSE ParseDigits(Tail(s), 10 * acc + DigitVal(Head(s)))

\* a number with a fraction: v / den, den a power of ten, without trailing zeros
RECURSIVE Float(_, _)
Float(n, den) ==
    IF den > 1 /\ n % 10 = 0 THEN Float(n \div 10, den \div 10)
    ELSE [k |-> "float", v |-> n, den |-> den]

RECURSIVE DropDigits(_)
DropDigits(s) == IF s = <<>> \/ ~IsDigit(Head(s)) THEN s ELSE DropDigits(Tail(s))

RECURSIVE PowerOfTen(_)
PowerOfTen(n) == IF n = 0 THEN 1 ELSE 10 * PowerOfTen(n - 1)

\* parseFloat(string): leading blanks, an optional sign, digits, an optional fraction
ParseFloat(str) ==
    LET t == SkipSpaces(str)
        signed == t # <<>> /\ Head(t) \in {"-", "+"}
        body == IF signed THEN Tail(t) ELSE t
        sign == IF signed /\ Head(t) = "-" THEN -1 ELSE 1
        rest == DropDigits(body)
        fraction == IF rest # <<>> /\ Head(rest) = "." THEN Tail(rest) ELSE <<>>
        places == Len(fraction) - Len(DropDigits(fraction))
        den == PowerOfTen(places)
    IN  IF rest = body /\ places = 0 THEN NaN
        ELSE Float(sign * (ParseDigits(body, 0) * den + ParseDigits(fraction, 0)), den)

\* parseInt(string): leading blanks, an optional sign, the leading digits
ParseInt(str) ==
    LET t == SkipSpaces(str)
        signed == t # <<>> /\ Head(t) \in {"-", "+"}
        body == IF signed THEN Tail(t) ELSE t
        sign == IF signed /\ Head(t) = "-" THEN -1 ELSE 1
    IN  IF body = <<>> \/ ~IsDigit(Head(body)) THEN NaN
        ELSE Num(sign * ParseDigits(body, 0))

RECURSIVE NatToString(_)
NatToString(n) ==
    IF n < 10 THEN <<DigitChars[n + 1]>>
    ELSE NatToString(n \div 10) \o <<DigitChars[(n % 10) + 1]>>

\* `${x}` in a template literal
TemplateString(x) ==
    CASE x.k = "nan" -> <<"N", "a", "N">>
      [] x.k = "inf" -> <<"I", "n", "f", "i", "n", "i", "t", "y">>
      [] x.k = "null" -> <<"n", "u", "l", "l">>
      [] OTHER -> IF x.v < 0 THEN <<"-">> \o NatToString(-x.v) ELSE NatToString(x.v)

\* x + d for a number or null x and an integer d
JsAdd(x, d) ==
    CASE x.k = "num" -> Num(x.v + d)
      [] x.k = "null" -> Num(d)
      [] OTHER -> x

\* x < n and x >= n; every comparison with NaN is false
JsLess(x, n) == x.k = "num" /\ x.v < n
JsGeq(x, n) == x.k = "inf" \/ (x.k = "num" /\ x.v >= n)
JsLeq(x, n) == x.k = "num" /\ x.v <= n

\* ---- inputs ----
TotalFields == {<<>>} \cup {NatToString(n) : n \in 0..MaxTotal}
IndexFields == {<<>>, <<"-", "1">>} \cup {NatToString(n) : n \in 0..(MaxTotal - 1)}
FilenameFields == {<<>>, <<"v">>}
ViewTotalFields == {<<>>} \cup {NatToString(n) : n \in 0..MaxViewTotal}
RatingInputs == {<<"3">>, <<"5">>}
\* what a call of selectRating may be given: the stars' values and others
SelectInputs == RatingInputs \cup {<<"0">>, <<"7">>, <<"x">>}
\* averages with one decimal, from 1.0 on
AverageInputs == {Float(t, 10) : t \in 10..MaxAverageTenths}
SmoothnessInputs == {<<"0", ".", "1">>, <<"0", ".", "5">>}
Responses == {"ok", "notok", "neterror"}
\* files the user may choose or drop: file.type and file.size
File(type, size) == [k |-> "file", type |-> type, size |-> size]
maxSize == 500 * 1024 * 1024
FileTypes == {"video/mp4", "video/quicktime", "image/png"}
FileSizes == {maxSize, maxSize + 1}
Files == {File(type, size) : type \in FileTypes, size \in FileSizes}
\* what a drop carries: one file or two
FileLists == {<<file>> : file \in Files} \cup {<<file, other>> : file \in Files, other \in Files}
\* /upload-video/ answers: status success, another status, !response.ok, fetch rejected
UploadResponses == {"success", "notsuccess", "httperror", "neterror"}

VARIABLES
    phase,               \* "constructed": new TrajectoryRating() has run; "ready": the load handler has ended
    hidden,              \* hidden fields of the page that the load handler has not read yet
    currentRating,
    currentTrajectoryId,
    videoFilename,
    totalTrajectories,
    ratedTrajectories,
    submitDisabled,      \* #submit-rating.disabled
    prevDisabled,        \* #prev-trajectory.disabled
    nextDisabled,        \* #next-trajectory.disabled
    progressPercent,     \* number shown in #progress-percent
    modalShown,          \* #completion-modal is displayed
    completionCalls,     \* calls of showCompletionModal in this page view
    notices,             \* notifications and alerts of the latest handler
    inflight,            \* rate-trajectory requests awaiting their response
    sent,                \* rate-trajectory requests sent from this page view
    statsInflight,       \* video-statistics requests awaiting their response
    timers,              \* pending setTimeout(() => navigateTrajectory(1))
    location,            \* trajectory the browser was asked to navigate to, or Null
    smoothnessFactor,
    regenInflight,       \* regenerate-gif requests awaiting their response
    gifRegenerated,      \* #trajectory-gif shows a regenerated image
    averageRating,       \* average shown in #final-stats, Null while it was never filled
    statsShown,          \* the statistics panel was filled from a video-statistics response
    qualityLevel,        \* the latest result of getQualityLevel, "none" before its first call
    \* history, kept as recording says: "off", "view" (of the page view) or "run" (over all page views)
    recording,
    handled,             \* the latest rate-trajectory response handled in this page view, or NoResponse
    failedRating,        \* rating of the latest failed rate-trajectory request of this page view, or Null
    failedAtSent,        \* the value of sent when that request failed
    acceptedEver,        \* indices with an accepted submission, over all page views
    acceptedTwice,       \* some index had a second accepted submission
    \* the upload page
    videoFileInput,      \* videoFileInput.files
    uploadBtnDisabled,   \* #uploadBtn.disabled
    fileShown,           \* file named in #fileUploadArea, Null while it shows the prompt
    uploadInflight,      \* files given to uploadAndAnalyze whose run has not ended
    uploads,             \* calls of uploadAndAnalyze
    uploadErrors,        \* errors shown by the latest handler of the upload page
    resultsShown         \* #resultsSection is displayed

vars == <<phase, hidden, currentRating, currentTrajectoryId, videoFilename,
          totalTrajectories, ratedTrajectories, submitDisabled, prevDisabled,
          nextDisabled, progressPercent, modalShown, completionCalls, notices,
          inflight, sent, statsInflight, timers, location,
          smoothnessFactor, regenInflight, gifRegenerated, averageRating,
          statsShown, qualityLevel,
          recording, handled, failedRating, failedAtSent, acceptedEver, acceptedTwice,
          videoFileInput, uploadBtnDisabled, fileShown, uploadInflight, uploads,
          uploadErrors, resultsShown>>

preview == <<smoothnessFactor, regenInflight, gifRegenerated, averageRating>>

display == <<statsShown, qualityLevel>>

upload == <<videoFileInput, uploadBtnDisabled, fileShown, uploadInflight, uploads,
            uploadErrors, resultsShown>>

history == <<recording, handled, failedRating, failedAtSent, acceptedEver, acceptedTwice>>

NoResponse == [trajectory_id |-> Null, rating |-> Null, retry |-> FALSE, response |-> "none"]
NoFields == [videoFilename |-> <<>>, trajectoryId |-> <<>>, totalTrajectories |-> <<>>]

\* ---- Progress ----
\* (size / total) * 100
Progress(size, total) ==
    IF total = 0 THEN (IF size = 0 THEN NaN ELSE Infinity)
    ELSE [k |-> "ratio", v |-> 100 * size, den |-> total]

MathRound_floor(p) ==
    IF p.k = "ratio" THEN Num(p.v \div p.den)
    ELSE [k |-> p.k, v |-> 0]

\* Math.round: to the nearest integer, halves upwards
MathRound(p) ==
    IF p.k = "ratio" THEN Num((2 * p.v + p.den) \div (2 * p.den))
    ELSE [k |-> p.k, v |-> 0]

\* progress >= 100
ProgressComplete(p) ==
    p.k = "inf" \/ (p.k = "ratio" /\ p.v >= 100 * p.den)

\* populateFinalStats: TRUE when it throws; it calls calculateAverageRating before
\* it writes #final-stats, so it never fills it
populateFinalStats == HasFinalStats /\ ~HasCalculateAverageRating

\* showCompletionModal: the modal, the notice, and whether it throws
showCompletionModal ==
    IF HasCompletionModal
    THEN [shown |-> TRUE, called |-> 1, throws |-> populateFinalStats,
          filled |-> FALSE, average |-> Null,
          notice |-> IF populateFinalStats THEN {} ELSE {"completed"}]
    ELSE [shown |-> FALSE, called |-> 1, throws |-> FALSE, filled |-> FALSE, average |-> Null,
          notice |-> {}]

\* updateProgress for a rated set of the given size
updateProgress(size, total) ==
    LET p == Progress(size, total) IN
    IF ~HasProgressBar
    THEN [write |-> FALSE, text |-> NaN, shown |-> FALSE, called |-> 0, throws |-> FALSE,
          filled |-> FALSE, average |-> Null, notice |-> {}]
    ELSE IF ProgressComplete(p)
         THEN [write |-> TRUE, text |-> MathRound(p)] @@ showCompletionModal
         ELSE [write |-> TRUE, text |-> MathRound(p), shown |-> FALSE, called |-> 0,
               throws |-> FALSE, filled |-> FALSE, average |-> Null, notice |-> {}]

\* loadStatistics: the number of requests it sends
loadStatistics(filename) == IF FalsyStr(filename) THEN 0 ELSE 1

\* ---- construction ----
\* the fields after new TrajectoryRating(): the constructor and init()
constructor ==
    [currentRating |-> Num(0),
     currentTrajectoryId |-> Null,
     videoFilename |-> NoString,
     totalTrajectories |-> 0,
     ratedTrajectories |-> {},
     smoothnessFactor |-> Float(1, 10),
     statsInflight |-> loadStatistics(NoString),
     progressPercent |-> updateProgress(0, 0).text]

\* a page whose script has constructed its TrajectoryRating; totals: what
\* total-trajectories-value may hold; averages: the averages getQualityLevel is given
LoadedWith(totals, averages) ==
    /\ phase = "constructed"
    /\ \E f \in FilenameFields, t \in IndexFields, n \in totals :
          hidden = [videoFilename |-> f, trajectoryId |-> t, totalTrajectories |-> n]
    /\ currentRating = constructor.currentRating
    /\ currentTrajectoryId = constructor.currentTrajectoryId
    /\ videoFilename = constructor.videoFilename
    /\ totalTrajectories = constructor.totalTrajectories
    /\ ratedTrajectories = constructor.ratedTrajectories
    /\ smoothnessFactor = constructor.smoothnessFactor
    /\ regenInflight = <<>>
    /\ gifRegenerated = FALSE
    /\ averageRating \in averages
    /\ statsShown = FALSE
    /\ qualityLevel = "none"
    /\ statsInflight = constructor.statsInflight
    /\ progressPercent = constructor.progressPercent
    /\ submitDisabled \in BOOLEAN
    /\ prevDisabled \in BOOLEAN
    /\ nextDisabled \in BOOLEAN
    /\ modalShown = FALSE
    /\ completionCalls = 0
    /\ notices = {}
    /\ inflight = <<>>
    /\ sent = 0
    /\ handled = NoResponse
    /\ failedRating = Null
    /\ failedAtSent = 0
    /\ timers = 0
    /\ location = Null
    /\ acceptedEver = {}
    /\ acceptedTwice = FALSE
    /\ videoFileInput = <<>>
    /\ uploadBtnDisabled = UploadBtnStartsDisabled
    /\ fileShown = Null
    /\ uploadInflight = <<>>
    /\ uploads = 0
    /\ uploadErrors = {}
    /\ resultsShown = FALSE

Loaded(totals) == LoadedWith(totals, {Null})

Init == Loaded(TotalFields) /\ recording = "off"

\* ---- the load handler (DOMContentLoaded, after new TrajectoryRating()) ----
setCurrentTrajectory_keeps(trajectoryId, total) ==
    /\ currentTrajectoryId' = trajectoryId
    /\ UNCHANGED <<currentRating, submitDisabled>>
    /\ prevDisabled' = JsLeq(trajectoryId, 0)
    /\ nextDisabled' = JsGeq(trajectoryId, total - 1)

setCurrentTrajectory_strict(trajectoryId, total) ==
    /\ currentTrajectoryId' = trajectoryId
    /\ currentRating' = Num(0)
    /\ submitDisabled' = TRUE
    /\ prevDisabled' = JsLess(trajectoryId, 0)
    /\ nextDisabled' = JsGeq(trajectoryId, total)

\* setCurrentTrajectory(trajectoryId), with totalTrajectories already set to total
setCurrentTrajectory(trajectoryId, total) ==
    /\ currentTrajectoryId' = trajectoryId
    /\ currentRating' = Num(0)
    /\ submitDisabled' = TRUE
    /\ prevDisabled' = JsLeq(trajectoryId, 0)
    /\ nextDisabled' = JsGeq(trajectoryId, total - 1)

DOMContentLoaded ==
    /\ phase = "constructed"
    /\ phase' = "ready"
    /\ hidden' = NoFields
    /\ IF hidden.videoFilename # <<>> /\ hidden.trajectoryId # <<>> /\ hidden.totalTrajectories # <<>>
       THEN LET total == ParseInt(hidden.totalTrajectories) IN
            \* setVideoInfo
            /\ videoFilename' = Str(hidden.videoFilename)
            /\ totalTrajectories' = total.v
            /\ setCurrentTrajectory(ParseInt(hidden.trajectoryId), total.v)
       ELSE UNCHANGED <<videoFilename, totalTrajectories, currentTrajectoryId, currentRating,
                        submitDisabled, prevDisabled, nextDisabled>>
    /\ notices' = {}
    /\ UNCHANGED <<ratedTrajectories, progressPercent, modalShown, completionCalls, inflight,
                   sent, statsInflight, timers, location>>
    /\ UNCHANGED <<preview, display, upload, history>>

\* ---- selectRating ----
\* parseInt of each string a star or a caller may pass, computed once
parseInt == [str \in SelectInputs |-> ParseInt(str)]

selectRating(rating) ==
    /\ phase = "ready"
    /\ currentRating' = parseInt[rating]
    /\ submitDisabled' = FALSE
    /\ notices' = {}
    /\ UNCHANGED <<phase, hidden, currentTrajectoryId, videoFilename, totalTrajectories,
                   ratedTrajectories, prevDisabled, nextDisabled, progressPercent, modalShown,
                   completionCalls, inflight, sent, statsInflight, timers, location>>
    /\ UNCHANGED <<preview, display, upload, history>>

\* ---- submitRating, up to its await fetch ----
\* (of the request body, smoothness_factor is left out: the page reads none of it back)
submitRejected_none(rating, trajectoryId, filename) == FALSE

\* the validation of submitRating: TRUE when the handler returns early
submitRejected(rating, trajectoryId, filename) ==
    Falsy(rating) \/ trajectoryId = Null

submitRating ==
    /\ phase = "ready"
    /\ ~submitDisabled
    /\ IF submitRejected(currentRating, currentTrajectoryId, videoFilename)
       THEN /\ notices' = {"alert"}
            /\ UNCHANGED <<inflight, sent>>
       ELSE /\ sent < MaxRequests
            /\ inflight' = Append(inflight, [video_filename |-> videoFilename,
                                             trajectory_id |-> currentTrajectoryId,
                                             rating |-> currentRating])
            /\ sent' = sent + 1
            /\ notices' = {}
    /\ UNCHANGED <<phase, hidden, currentRating, currentTrajectoryId, videoFilename,
                   totalTrajectories, ratedTrajectories, submitDisabled, prevDisabled,
                   nextDisabled, progressPercent, modalShown, completionCalls, statsInflight,
                   timers, location>>
    /\ UNCHANGED <<preview, display, upload, history>>

\* ---- submitRating, from the response on ----
RemoveAt(q, i) == SubSeq(q, 1, i - 1) \o SubSeq(q, i + 1, Len(q))

responseOk_unchecked(response) == TRUE

\* response.ok; a failed fetch has no response and throws
responseOk(response) == response = "ok"

ratedIndex_navigated(request) == IF location # Null THEN location ELSE currentTrajectoryId

\* the index that an accepted response adds to ratedTrajectories
ratedIndex(request) == currentTrajectoryId

\* this.ratedTrajectories.add(...)
ratedAdd(rated, added) == rated \cup {added}

\* ---- history ----
\* inflight[i] was sent after the latest failure, with the rating of the failed request
isRetry(i) ==
    /\ failedRating = inflight[i].rating
    /\ sent - (Len(inflight) - i) > failedAtSent

recordResponse(i, response, added) ==
    /\ recording' = recording
    /\ IF recording = "view"
       THEN /\ handled' = [trajectory_id |-> inflight[i].trajectory_id,
                           rating |-> inflight[i].rating,
                           retry |-> isRetry(i), response |-> response]
            /\ IF responseOk(response)
               THEN UNCHANGED <<failedRating, failedAtSent>>
               ELSE /\ failedRating' = inflight[i].rating
                    /\ failedAtSent' = sent
       ELSE UNCHANGED <<handled, failedRating, failedAtSent>>
    /\ IF recording = "run" /\ responseOk(response)
       THEN /\ acceptedEver' = acceptedEver \cup {added}
            /\ acceptedTwice' = (acceptedTwice \/ added \in acceptedEver)
       ELSE UNCHANGED <<acceptedEver, acceptedTwice>>

submitResponse_disables(i, response) ==
    /\ phase = "ready"
    /\ i \in DOMAIN inflight
    /\ inflight' = RemoveAt(inflight, i)
    /\ IF responseOk(response)
       THEN LET added == ratedIndex(inflight[i])
                rated == ratedAdd(ratedTrajectories, added)
                up == updateProgress(Cardinality(rated), totalTrajectories)
            IN  /\ ratedTrajectories' = rated
                /\ statsInflight' = statsInflight + loadStatistics(videoFilename)
                /\ progressPercent' = IF up.write THEN up.text ELSE progressPercent
                /\ modalShown' = (modalShown \/ up.shown)
                /\ completionCalls' = completionCalls + up.called
                /\ averageRating' = IF up.filled THEN up.average ELSE averageRating
                /\ timers' = IF up.throws THEN timers ELSE timers + 1
                /\ submitDisabled' = submitDisabled
                /\ notices' = {"saved"} \cup up.notice
                                 \cup (IF up.throws THEN {"saveError"} ELSE {})
       ELSE /\ notices' = {"saveError"}
            /\ submitDisabled' = TRUE
            /\ UNCHANGED <<ratedTrajectories, statsInflight, progressPercent, modalShown,
                           completionCalls, averageRating, timers>>
    /\ UNCHANGED <<phase, hidden, currentRating, currentTrajectoryId, videoFilename,
                   totalTrajectories, prevDisabled, nextDisabled, sent, location>>
    /\ UNCHANGED <<smoothnessFactor, regenInflight, gifRegenerated, display, upload>>
    /\ recordResponse(i, response, ratedIndex(inflight[i]))

submitResponse(i, response) ==
    /\ phase = "ready"
    /\ i \in DOMAIN inflight
    /\ inflight' = RemoveAt(inflight, i)
    /\ IF responseOk(response)
       THEN LET added == ratedIndex(inflight[i])
                rated == ratedAdd(ratedTrajectories, added)
                up == updateProgress(Cardinality(rated), totalTrajectories)
            IN  /\ ratedTrajectories' = rated
                /\ statsInflight' = statsInflight + loadStatistics(videoFilename)
                /\ progressPercent' = IF up.write THEN up.text ELSE progressPercent
                /\ modalShown' = (modalShown \/ up.shown)
                /\ completionCalls' = completionCalls + up.called
                /\ averageRating' = IF up.filled THEN up.average ELSE averageRating
                /\ timers' = IF up.throws THEN timers ELSE timers + 1
                /\ notices' = {"saved"} \cup up.notice
                                 \cup (IF up.throws THEN {"saveError"} ELSE {})
       ELSE /\ notices' = {"saveError"}
            /\ UNCHANGED <<ratedTrajectories, statsInflight, progressPercent, modalShown,
                           completionCalls, averageRating, timers>>
    /\ UNCHANGED <<phase, hidden, currentRating, currentTrajectoryId, videoFilename,
                   totalTrajectories, submitDisabled, prevDisabled, nextDisabled, sent, location>>
    /\ UNCHANGED <<smoothnessFactor, regenInflight, gifRegenerated, display, upload>>
    /\ recordResponse(i, response, ratedIndex(inflight[i]))

\* ---- loadStatistics, from the response on ----
statisticsResponse(response) ==
    /\ phase = "ready"
    /\ statsInflight > 0
    /\ statsInflight' = statsInflight - 1
    \* updateStatisticsDisplay on response.ok; otherwise nothing, or console.error
    /\ statsShown' = (statsShown \/ responseOk(response))
    /\ notices' = {}
    /\ UNCHANGED <<phase, hidden, currentRating, currentTrajectoryId, videoFilename,
                   totalTrajectories, ratedTrajectories, submitDisabled, prevDisabled,
                   nextDisabled, progressPercent, modalShown, completionCalls, inflight, sent,
                   timers, location>>
    /\ UNCHANGED <<preview, qualityLevel, upload, history>>

\* ---- navigateTrajectory ----
navigateTrajectory_fromPending(direction) ==
    LET from == IF location # Null THEN location ELSE currentTrajectoryId
        newTrajectoryId == JsAdd(from, direction) IN
    IF FalsyStr(videoFilename) THEN [notice |-> {}, href |-> Null]
    ELSE IF JsLess(newTrajectoryId, 0) THEN [notice |-> {"first"}, href |-> Null]
    ELSE IF JsGeq(newTrajectoryId, totalTrajectories) THEN [notice |-> {"last"}, href |-> Null]
    ELSE [notice |-> {}, href |-> newTrajectoryId]

navigateTrajectory_offByOne(direction) ==
    LET newTrajectoryId == JsAdd(currentTrajectoryId, direction) IN
    IF FalsyStr(videoFilename) THEN [notice |-> {}, href |-> Null]
    ELSE IF JsLess(newTrajectoryId, 0) THEN [notice |-> {"first"}, href |-> Null]
    ELSE IF JsGeq(newTrajectoryId, totalTrajectories + 1) THEN [notice |-> {"last"}, href |-> Null]
    ELSE [notice |-> {}, href |-> newTrajectoryId]

\* what navigateTrajectory(direction) does: a notice, or the trajectory to load
navigateTrajectory(direction) ==
    LET newTrajectoryId == JsAdd(currentTrajectoryId, direction) IN
    IF FalsyStr(videoFilename) THEN [notice |-> {}, href |-> Null]
    ELSE IF JsLess(newTrajectoryId, 0) THEN [notice |-> {"first"}, href |-> Null]
    ELSE IF JsGeq(newTrajectoryId, totalTrajectories) THEN [notice |-> {"last"}, href |-> Null]
    ELSE [notice |-> {}, href |-> newTrajectoryId]

Navigate(direction) ==
    LET nav == navigateTrajectory(direction) IN
    /\ notices' = nav.notice
    /\ location' = IF nav.href = Null THEN location ELSE nav.href

navigateClick(direction) ==
    /\ phase = "ready"
    /\ IF direction < 0 THEN ~prevDisabled ELSE ~nextDisabled
    /\ Navigate(direction)
    /\ UNCHANGED <<phase, hidden, currentRating, currentTrajectoryId, videoFilename,
                   totalTrajectories, ratedTrajectories, submitDisabled, prevDisabled,
                   nextDisabled, progressPercent, modalShown, completionCalls, inflight, sent,
                   statsInflight, timers>>
    /\ UNCHANGED <<preview, display, upload, history>>

\* ---- skipTrajectory ----
skipTrajectory_rates ==
    /\ phase = "ready"
    /\ timers < MaxTimers
    /\ notices' = {"skipped"}
    /\ timers' = timers + 1
    /\ ratedTrajectories' = ratedTrajectories \cup {currentTrajectoryId}
    /\ UNCHANGED <<phase, hidden, currentRating, currentTrajectoryId, videoFilename,
                   totalTrajectories, submitDisabled, prevDisabled,
                   nextDisabled, progressPercent, modalShown, completionCalls, inflight, sent,
                   statsInflight, location>>
    /\ UNCHANGED <<preview, display, upload, history>>

skipTrajectory ==
    /\ phase = "ready"
    /\ timers < MaxTimers
    /\ notices' = {"skipped"}
    /\ timers' = timers + 1
    /\ UNCHANGED <<phase, hidden, currentRating, currentTrajectoryId, videoFilename,
                   totalTrajectories, ratedTrajectories, submitDisabled, prevDisabled,
                   nextDisabled, progressPercent, modalShown, completionCalls, inflight, sent,
                   statsInflight, location>>
    /\ UNCHANGED <<preview, display, upload, history>>

\* ---- a setTimeout(() => this.navigateTrajectory(1), 1000) comes due ----
autoAdvance ==
    /\ phase = "ready"
    /\ timers > 0
    /\ timers' = timers - 1
    /\ Navigate(1)
    /\ UNCHANGED <<phase, hidden, currentRating, currentTrajectoryId, videoFilename,
                   totalTrajectories, ratedTrajectories, submitDisabled, prevDisabled,
                   nextDisabled, progressPercent, modalShown, completionCalls, inflight, sent,
                   statsInflight>>
    /\ UNCHANGED <<preview, display, upload, history>>

\* ---- updateSmoothness ----
\* parseFloat of each value of the slider, computed once
parseFloat == [str \in SmoothnessInputs |-> ParseFloat(str)]

updateSmoothness_regenerates(value) ==
    /\ phase = "ready"
    /\ smoothnessFactor' = parseFloat[value]
    /\ notices' = {}
    /\ regenInflight' = IF Len(regenInflight) < MaxRegenerate
                        THEN Append(regenInflight, [video_filename |-> videoFilename,
                                                    trajectory_id |-> currentTrajectoryId,
                                                    smoothness_factor |-> parseFloat[value]])
                        ELSE regenInflight
    /\ UNCHANGED <<phase, hidden, currentRating, currentTrajectoryId, videoFilename,
                   totalTrajectories, ratedTrajectories, submitDisabled, prevDisabled,
                   nextDisabled, progressPercent, modalShown, completionCalls, inflight, sent,
                   statsInflight, timers, location>>
    /\ UNCHANGED <<gifRegenerated, averageRating, display, upload, history>>

updateSmoothness(value) ==
    /\ phase = "ready"
    /\ smoothnessFactor' = parseFloat[value]
    /\ notices' = {}
    /\ UNCHANGED <<phase, hidden, currentRating, currentTrajectoryId, videoFilename,
                   totalTrajectories, ratedTrajectories, submitDisabled, prevDisabled,
                   nextDisabled, progressPercent, modalShown, completionCalls, inflight, sent,
                   statsInflight, timers, location>>
    /\ UNCHANGED <<regenInflight, gifRegenerated, averageRating, display, upload, history>>

\* ---- regenerateGif, up to its await fetch ----
\* the guard of regenerateGif: TRUE when the handler returns at once
regenerateSkipped(trajectoryId) == Falsy(trajectoryId)

regenerateGif_clears ==
    /\ phase = "ready"
    /\ ~regenerateSkipped(currentTrajectoryId)
    /\ Len(regenInflight) < MaxRegenerate
    /\ regenInflight' = Append(regenInflight, [video_filename |-> videoFilename,
                                               trajectory_id |-> currentTrajectoryId,
                                               smoothness_factor |-> smoothnessFactor])
    /\ notices' = {"gifInfo"}
    /\ currentRating' = Null
    /\ UNCHANGED <<phase, hidden, currentTrajectoryId, videoFilename,
                   totalTrajectories, ratedTrajectories, submitDisabled, prevDisabled,
                   nextDisabled, progressPercent, modalShown, completionCalls, inflight, sent,
                   statsInflight, timers, location>>
    /\ UNCHANGED <<smoothnessFactor, gifRegenerated, averageRating, display, upload, history>>

regenerateGif ==
    /\ phase = "ready"
    /\ IF regenerateSkipped(currentTrajectoryId)
       THEN /\ notices' = {}
            /\ UNCHANGED regenInflight
       ELSE /\ Len(regenInflight) < MaxRegenerate
            /\ regenInflight' = Append(regenInflight, [video_filename |-> videoFilename,
                                                       trajectory_id |-> currentTrajectoryId,
                                                       smoothness_factor |-> smoothnessFactor])
            /\ notices' = {"gifInfo"}
    /\ UNCHANGED <<phase, hidden, currentRating, currentTrajectoryId, videoFilename,
                   totalTrajectories, ratedTrajectories, submitDisabled, prevDisabled,
                   nextDisabled, progressPercent, modalShown, completionCalls, inflight, sent,
                   statsInflight, timers, location>>
    /\ UNCHANGED <<smoothnessFactor, gifRegenerated, averageRating, display, upload, history>>

\* ---- regenerateGif, from the response on ----
regenerateResponse(i, response) ==
    /\ phase = "ready"
    /\ i \in DOMAIN regenInflight
    /\ regenInflight' = RemoveAt(regenInflight, i)
    /\ IF responseOk(response)
       THEN /\ gifRegenerated' = (gifRegenerated \/ HasGifImg)
            /\ notices' = {"gifUpdated"}
       ELSE /\ notices' = {"gifError"}
            /\ UNCHANGED gifRegenerated
    /\ UNCHANGED <<phase, hidden, currentRating, currentTrajectoryId, videoFilename,
                   totalTrajectories, ratedTrajectories, submitDisabled, prevDisabled,
                   nextDisabled, progressPercent, modalShown, completionCalls, inflight, sent,
                   statsInflight, timers, location>>
    /\ UNCHANGED <<smoothnessFactor, averageRating, display, upload, history>>

\* ---- exportResults ----
\* TRUE when the try block of exportResults throws: it calls calculateAverageRating
\* before it builds the file
exportThrows == ~HasCalculateAverageRating

exportResults_resets ==
    /\ phase = "ready"
    /\ notices' = IF exportThrows THEN {"exportError"} ELSE {"exported"}
    /\ currentRating' = Null
    /\ UNCHANGED <<phase, hidden, currentTrajectoryId, videoFilename,
                   totalTrajectories, ratedTrajectories, submitDisabled, prevDisabled,
                   nextDisabled, progressPercent, modalShown, completionCalls, inflight, sent,
                   statsInflight, timers, location>>
    /\ UNCHANGED <<preview, display, upload, history>>

exportResults ==
    /\ phase = "ready"
    /\ notices' = IF exportThrows THEN {"exportError"} ELSE {"exported"}
    /\ UNCHANGED <<phase, hidden, currentRating, currentTrajectoryId, videoFilename,
                   totalTrajectories, ratedTrajectories, submitDisabled, prevDisabled,
                   nextDisabled, progressPercent, modalShown, completionCalls, inflight, sent,
                   statsInflight, timers, location>>
    /\ UNCHANGED <<preview, display, upload, history>>

\* ---- getQualityLevel ----
\* averageRating >= n / d
AtLeast(average, n, d) ==
    average.k = "float" /\ average.v * d >= n * average.den

getQualityLevel_above(average) ==
    IF average.k = "float" /\ average.v * 10 > 45 * average.den THEN "excellent"
    ELSE IF AtLeast(average, 4, 1) THEN "good"
    ELSE IF AtLeast(average, 3, 1) THEN "satisfactory"
    ELSE IF AtLeast(average, 2, 1) THEN "needsImprovement"
    ELSE "low"

\* the labels, in the order of the return statements
getQualityLevel(average) ==
    IF AtLeast(average, 45, 10) THEN "excellent"
    ELSE IF AtLeast(average, 4, 1) THEN "good"
    ELSE IF AtLeast(average, 3, 1) THEN "satisfactory"
    ELSE IF AtLeast(average, 2, 1) THEN "needsImprovement"
    ELSE "low"

\* getQualityLevel applied to an average
showQualityLevel ==
    /\ phase = "constructed"
    /\ qualityLevel' = getQualityLevel(averageRating)
    /\ UNCHANGED <<phase, hidden, currentRating, currentTrajectoryId, videoFilename,
                   totalTrajectories, ratedTrajectories, submitDisabled, prevDisabled,
                   nextDisabled, progressPercent, modalShown, completionCalls, notices,
                   inflight, sent, statsInflight, timers, location>>
    /\ UNCHANGED <<preview, statsShown, upload, history>>

\* ---- the browser commits the navigation: the next page view is constructed ----
pageArrival ==
    /\ phase = "ready"
    /\ location # Null
    /\ phase' = "constructed"
    /\ hidden' = [videoFilename |-> videoFilename.s,
                  trajectoryId |-> TemplateString(location),
                  totalTrajectories |-> NatToString(totalTrajectories)]
    /\ currentRating' = constructor.currentRating
    /\ currentTrajectoryId' = constructor.currentTrajectoryId
    /\ videoFilename' = constructor.videoFilename
    /\ totalTrajectories' = constructor.totalTrajectories
    /\ ratedTrajectories' = constructor.ratedTrajectories
    /\ smoothnessFactor' = constructor.smoothnessFactor
    /\ regenInflight' = <<>>
    /\ gifRegenerated' = FALSE
    /\ averageRating' = Null
    /\ statsShown' = FALSE
    /\ qualityLevel' = "none"
    /\ statsInflight' = constructor.statsInflight
    /\ progressPercent' = constructor.progressPercent
    /\ submitDisabled' \in BOOLEAN
    /\ prevDisabled' \in BOOLEAN
    /\ nextDisabled' \in BOOLEAN
    /\ modalShown' = FALSE
    /\ completionCalls' = 0
    /\ notices' = {}
    /\ inflight' = <<>>
    /\ sent' = 0
    /\ handled' = NoResponse
    /\ failedRating' = Null
    /\ failedAtSent' = 0
    /\ timers' = 0
    /\ location' = Null
    /\ UNCHANGED <<recording, acceptedEver, acceptedTwice>>
    /\ UNCHANGED upload

Next ==
    \/ DOMContentLoaded
    \/ \E rating \in RatingInputs : selectRating(rating)
    \/ submitRating
    \/ \E i \in 1..MaxRequests, response \in Responses : submitResponse(i, response)
    \/ \E response \in Responses : statisticsResponse(response)
    \/ \E direction \in {-1, 1} : navigateClick(direction)
    \/ skipTrajectory
    \/ autoAdvance
    \/ pageArrival
    \/ \E value \in SmoothnessInputs : updateSmoothness(value)
    \/ regenerateGif
    \/ \E i \in 1..MaxRegenerate, response \in Responses : regenerateResponse(i, response)
    \/ exportResults

Spec == Init /\ [][Next]_vars

\* ---- the same program, with the history of the run recorded ----
InitHistory == Loaded(TotalFields) /\ recording = "run"

\* the rating workflow: every operation but those that touch neither
\* ratedTrajectories nor the progress (the preview and the export)
NextRating ==
    \/ DOMContentLoaded
    \/ \E rating \in RatingInputs : selectRating(rating)
    \/ submitRating
    \/ \E i \in 1..MaxRequests, response \in Responses : submitResponse(i, response)
    \/ \E response \in Responses : statisticsResponse(response)
    \/ \E direction \in {-1, 1} : navigateClick(direction)
    \/ skipTrajectory
    \/ autoAdvance
    \/ pageArrival

SpecHistory == InitHistory /\ [][NextRating]_vars

\* ---- one page view, from its construction until the browser leaves it ----
InitViewHistory == Loaded(TotalFields) /\ recording = "view"

InitView == Loaded(ViewTotalFields) /\ recording = "off"

NextView ==
    \/ DOMContentLoaded
    \/ \E rating \in RatingInputs : selectRating(rating)
    \/ submitRating
    \/ \E i \in 1..MaxRequests, response \in Responses : submitResponse(i, response)
    \/ \E response \in Responses : statisticsResponse(response)
    \/ \E direction \in {-1, 1} : navigateClick(direction)
    \/ skipTrajectory
    \/ autoAdvance

SpecView == InitView /\ [][NextView]_vars

SpecViewHistory == InitViewHistory /\ [][NextView]_vars

\* ---- one page view whose selectRating is given any value ----
NextSelect ==
    \/ DOMContentLoaded
    \/ \E rating \in SelectInputs : selectRating(rating)
    \/ submitRating
    \/ \E i \in 1..MaxRequests, response \in Responses : submitResponse(i, response)
    \/ \E response \in Responses : statisticsResponse(response)
    \/ \E direction \in {-1, 1} : navigateClick(direction)
    \/ skipTrajectory
    \/ autoAdvance

SpecSelect == Init /\ [][NextSelect]_vars

\* ---- getQualityLevel alone, over the averages with one decimal ----
InitQuality == LoadedWith(TotalFields, AverageInputs) /\ recording = "off"

NextQuality == showQualityLevel

SpecQuality == InitQuality /\ [][NextQuality]_vars

\* ---- the upload page ----
\* handleFileSelection: whether the file passes both tests, and the error shown
handleFileSelection(file) ==
    LET allowedTypes == {"video/mp4", "video/avi", "video/mov", "video/quicktime"} IN
    IF file.type \notin allowedTypes THEN [accepted |-> FALSE, errors |-> {"type"}]
    ELSE IF file.size > maxSize THEN [accepted |-> FALSE, errors |-> {"size"}]
    ELSE [accepted |-> TRUE, errors |-> {}]

\* the effects of handleFileSelection: a rejected file only shows its error
FileSelection(file) ==
    LET selection == handleFileSelection(file) IN
    /\ uploadErrors' = selection.errors
    /\ fileShown' = IF selection.accepted THEN file ELSE fileShown
    /\ uploadBtnDisabled' = IF selection.accepted THEN FALSE ELSE uploadBtnDisabled

\* the change event of #videoFile: the browser has put the chosen file in files
fileChange(file) ==
    /\ videoFileInput' = <<file>>
    /\ FileSelection(file)
    /\ UNCHANGED <<uploadInflight, uploads, resultsShown>>
    /\ UNCHANGED <<phase, hidden, currentRating, currentTrajectoryId, videoFilename,
                   totalTrajectories, ratedTrajectories, submitDisabled, prevDisabled,
                   nextDisabled, progressPercent, modalShown, completionCalls, notices,
                   inflight, sent, statsInflight, timers, location>>
    /\ UNCHANGED <<preview, display, history>>

\* the change event of a selection made empty: files.length is 0
fileCleared ==
    /\ videoFileInput # <<>>
    /\ videoFileInput' = <<>>
    /\ UNCHANGED <<uploadBtnDisabled, fileShown, uploadInflight, uploads, uploadErrors,
                   resultsShown>>
    /\ UNCHANGED <<phase, hidden, currentRating, currentTrajectoryId, videoFilename,
                   totalTrajectories, ratedTrajectories, submitDisabled, prevDisabled,
                   nextDisabled, progressPercent, modalShown, completionCalls, notices,
                   inflight, sent, statsInflight, timers, location>>
    /\ UNCHANGED <<preview, display, history>>

\* the drop event of #fileUploadArea with at least one file
drop(files) ==
    /\ videoFileInput' = files
    /\ FileSelection(files[1])
    /\ UNCHANGED <<uploadInflight, uploads, resultsShown>>
    /\ UNCHANGED <<phase, hidden, currentRating, currentTrajectoryId, videoFilename,
                   totalTrajectories, ratedTrajectories, submitDisabled, prevDisabled,
                   nextDisabled, progressPercent, modalShown, completionCalls, notices,
                   inflight, sent, statsInflight, timers, location>>
    /\ UNCHANGED <<preview, display, history>>

\* the submit event of #uploadForm, by its button; with a file it runs
\* uploadAndAnalyze up to the fetch
formSubmit ==
    /\ ~uploadBtnDisabled
    /\ uploads < MaxUploads
    /\ IF videoFileInput = <<>>
       THEN /\ uploadErrors' = {"noFile"}
            /\ UNCHANGED <<uploadBtnDisabled, uploadInflight, uploads>>
       ELSE /\ uploadErrors' = {}
            /\ uploadBtnDisabled' = TRUE
            /\ uploadInflight' = Append(uploadInflight, videoFileInput[1])
            /\ uploads' = uploads + 1
    /\ UNCHANGED <<videoFileInput, fileShown, resultsShown>>
    /\ UNCHANGED <<phase, hidden, currentRating, currentTrajectoryId, videoFilename,
                   totalTrajectories, ratedTrajectories, submitDisabled, prevDisabled,
                   nextDisabled, progressPercent, modalShown, completionCalls, notices,
                   inflight, sent, statsInflight, timers, location>>
    /\ UNCHANGED <<preview, display, history>>

\* uploadAndAnalyze from the answer of /upload-video/ on: displayResults, or
\* the catch block with showError and resetUploadForm
uploadResponse(i, response) ==
    /\ i \in 1..Len(uploadInflight)
    /\ uploadInflight' = RemoveAt(uploadInflight, i)
    /\ uploadBtnDisabled' = FALSE
    /\ IF response = "success"
       THEN /\ resultsShown' = TRUE
            /\ uploadErrors' = {}
            /\ UNCHANGED <<videoFileInput, fileShown>>
       ELSE /\ uploadErrors' = {"processing"}
            /\ fileShown' = Null
            /\ videoFileInput' = <<>>
            /\ UNCHANGED resultsShown
    /\ UNCHANGED uploads
    /\ UNCHANGED <<phase, hidden, currentRating, currentTrajectoryId, videoFilename,
                   totalTrajectories, ratedTrajectories, submitDisabled, prevDisabled,
                   nextDisabled, progressPercent, modalShown, completionCalls, notices,
                   inflight, sent, statsInflight, timers, location>>
    /\ UNCHANGED <<preview, display, history>>

\* the upload page: its script constructs no rating session from hidden fields
InitUpload ==
    /\ Init
    /\ hidden = NoFields
    /\ submitDisabled /\ prevDisabled /\ nextDisabled

NextUpload ==
    \/ \E file \in Files : fileChange(file)
    \/ fileCleared
    \/ \E files \in FileLists : drop(files)
    \/ formSubmit
    \/ \E i \in 1..MaxUploads, response \in UploadResponses : uploadResponse(i, response)

SpecUpload == InitUpload /\ [][NextUpload]_vars

\* ---- properties ----
\* n / d rounded to the nearest integer, a half rounded upwards (n >= 0, d > 0)
RoundHalfUp(n, d) ==
    CHOOSE q \in 0..((n \div d) + 1) : 2 * d * q - d <= 2 * n /\ 2 * n < 2 * d * q + d

\* the page view was loaded for a trajectory of the video: 0 <= index < total
InRangeView ==
    /\ phase = "ready"
    /\ totalTrajectories > 0
    /\ IsNum(currentTrajectoryId)
    /\ currentTrajectoryId.v \in 0..(totalTrajectories - 1)

\* C1: with totalTrajectories > 0, once a submission has been accepted in the
\* page view, the percentage shown is 100 * ratedTrajectories.size /
\* totalTrajectories rounded to the nearest integer.
C1_ProgressShown ==
    (totalTrajectories > 0 /\ ratedTrajectories # {})
        => progressPercent = Num(RoundHalfUp(100 * Cardinality(ratedTrajectories), totalTrajectories))

\* an accepted submission was just handled and the percentage shown was rounded upwards
C1_Witness ==
    /\ "saved" \in notices
    /\ totalTrajectories > 0
    /\ IsNum(progressPercent)
    /\ progressPercent.v * totalTrajectories > 100 * Cardinality(ratedTrajectories)

\* C2: once every trajectory of the view's video is rated (ratedTrajectories.size
\* = totalTrajectories > 0), the completion handler has run once and no
\* later recomputation runs it again.
C2_CompletionOnce ==
    (InRangeView /\ Cardinality(ratedTrajectories) = totalTrajectories)
        => completionCalls <= 1

\* C3: a response to a submission either is accepted, adds the index and
\* surfaces no error, or is a failure, leaves ratedTrajectories and
\* currentRating unchanged and surfaces an error.
C3_SubmissionAtomic ==
    [][\A i \in 1..MaxRequests, response \in Responses :
          submitResponse(i, response) =>
             IF response = "ok"
             THEN /\ inflight[i].trajectory_id \in ratedTrajectories'
                  /\ "saveError" \notin notices'
             ELSE /\ ratedTrajectories' = ratedTrajectories
                  /\ currentRating' = currentRating
                  /\ "saveError" \in notices']_vars

\* C4: submitRating with no rating selected sends no request and leaves
\* ratedTrajectories unchanged.
C4_NoRatingNoRequest ==
    [][(submitRating /\ Falsy(currentRating)) =>
          /\ inflight' = inflight
          /\ sent' = sent
          /\ ratedTrajectories' = ratedTrajectories
          /\ notices' = {"alert"}]_vars

\* submitRating has just refused a submission without a rating
C4_Witness ==
    /\ notices = {"alert"}
    /\ Falsy(currentRating)
    /\ sent = 0
    /\ inflight = <<>>

\* C5: every request that submitRating sends carries a selected rating, a
\* trajectory index that is a non-negative integer, and a video filename.
C5_RequestPreconditions ==
    \A i \in DOMAIN inflight :
        /\ ~Falsy(inflight[i].rating)
        /\ IsNum(inflight[i].trajectory_id)
        /\ inflight[i].trajectory_id.v >= 0
        /\ ~FalsyStr(inflight[i].video_filename)

\* C6: a failed submission leaves ratedTrajectories unchanged and the rating
\* selected; an accepted retry with the rating of the failed attempt puts the
\* index into ratedTrajectories, which grows by that index only.
C6_FailureThenRetry ==
    [][\A i \in 1..MaxRequests, response \in Responses :
          submitResponse(i, response) =>
             IF response = "ok"
             THEN isRetry(i) =>
                     /\ inflight[i].trajectory_id \in ratedTrajectories'
                     /\ ratedTrajectories' \ ratedTrajectories \subseteq {inflight[i].trajectory_id}
                     /\ Cardinality(ratedTrajectories') <= Cardinality(ratedTrajectories) + 1
             ELSE /\ ratedTrajectories' = ratedTrajectories
                  /\ currentRating' = currentRating
                  /\ ~Falsy(currentRating')]_vars

\* a retry with the rating of a failed attempt was accepted and its index is rated once
C6_Witness ==
    /\ handled.response = "ok"
    /\ handled.retry
    /\ failedRating = handled.rating
    /\ handled.trajectory_id \in ratedTrajectories
    /\ Cardinality(ratedTrajectories) = 1

\* C7: an accepted response adds to ratedTrajectories the trajectory_id that
\* its request carried, also when a navigation was requested in between.
C7_RecordsRequestIndex ==
    [][\A i \in 1..MaxRequests :
          submitResponse(i, "ok") =>
             ratedTrajectories' = ratedTrajectories \cup {inflight[i].trajectory_id}]_vars

\* a response was accepted while a navigation to another trajectory was pending
C7_Witness ==
    /\ "saved" \in notices
    /\ location # Null
    /\ location # currentTrajectoryId
    /\ ratedTrajectories = {currentTrajectoryId}

\* C8: while a rate-trajectory request is in flight the submit button is
\* disabled, so at most one such request is outstanding.
C8_SingleOutstanding ==
    /\ inflight # <<>> => submitDisabled
    /\ Len(inflight) <= 1

\* C9: every accepted response leaves the index rated, surfaces the success
\* notice, shows the recomputed progress and schedules navigateTrajectory(1).
C9_AcceptedEffects ==
    [][\A i \in 1..MaxRequests :
          (submitResponse(i, "ok") /\ InRangeView) =>
             /\ currentTrajectoryId \in ratedTrajectories'
             /\ "saved" \in notices'
             /\ progressPercent' = Num(RoundHalfUp(100 * Cardinality(ratedTrajectories'),
                                                   totalTrajectories))
             /\ timers' = timers + 1]_vars

\* C10: when each index 0..N-1 of a video with N > 0 trajectories has had one
\* accepted submission, the last of them just handled, the progress shown is
\* 100 and the completion handler has run once.
C10_AllRatedCompletes ==
    (/\ InRangeView
     /\ "saved" \in notices
     /\ ~acceptedTwice
     /\ acceptedEver = {Num(n) : n \in 0..(totalTrajectories - 1)})
        => (progressPercent = Num(100) /\ completionCalls = 1)

\* C11: with totalTrajectories = 0 the progress shown is 0 and the completion
\* handler has not run, in every state from construction on.
C11_ZeroTotal ==
    totalTrajectories = 0 => (progressPercent = Num(0) /\ completionCalls = 0)

\* C12: ratedTrajectories never holds more indices than totalTrajectories.
C12_RatedWithinTotal ==
    Cardinality(ratedTrajectories) <= totalTrajectories

\* C13: with totalTrajectories > 0, a defined currentTrajectoryId is an
\* integer with 0 <= currentTrajectoryId < totalTrajectories.
C13_IndexInRange ==
    (totalTrajectories > 0 /\ currentTrajectoryId # Null)
        => (IsNum(currentTrajectoryId)
            /\ currentTrajectoryId.v \in 0..(totalTrajectories - 1))

\* C14: navigateTrajectory(-1) at index 0 and navigateTrajectory(1) at index
\* totalTrajectories - 1 only show a notice and ask for no navigation, and a
\* step that shows one of these notices leaves currentTrajectoryId,
\* currentRating, ratedTrajectories and the pending navigation unchanged.
C14_BoundaryNoOp ==
    [][/\ (InRangeView /\ currentTrajectoryId.v = 0)
            => navigateTrajectory(-1) = [notice |-> {"first"}, href |-> Null]
       /\ (InRangeView /\ currentTrajectoryId.v = totalTrajectories - 1)
            => /\ navigateTrajectory(1) = [notice |-> {"last"}, href |-> Null]
               /\ (timers' < timers /\ phase' = "ready")
                    => (notices' = {"last"} /\ location' = location)
       /\ (InRangeView /\ notices' \in {{"first"}, {"last"}})
            => UNCHANGED <<currentTrajectoryId, currentRating, ratedTrajectories, location>>
      ]_vars

\* the timer of an accepted submission came due on the last trajectory
C14_Witness ==
    /\ InRangeView
    /\ currentTrajectoryId.v = totalTrajectories - 1
    /\ notices = {"last"}
    /\ ratedTrajectories # {}
    /\ location = Null

\* C15: no step of the session makes ratedTrajectories lose an index.
C15_RatedOnlyGrows ==
    [][ratedTrajectories \subseteq ratedTrajectories']_vars

\* C16: when the completion modal is shown after the only request of the
\* session was accepted, the average shown is the rating of that request.
C16_AverageOnCompletion ==
    (modalShown /\ sent = 1 /\ handled.response = "ok")
        => averageRating = handled.rating

\* C17: no call of exportResults ends in the export error notice.
C17_ExportNeverFails ==
    "exportError" \notin notices

\* C18: a step that ends an exportResults call (it shows the export notice or
\* the export error notice) leaves videoFilename, totalTrajectories,
\* currentTrajectoryId, currentRating, ratedTrajectories and smoothnessFactor
\* unchanged.
C18_ExportFrame ==
    [][(notices' \cap {"exported", "exportError"} # {})
            => UNCHANGED <<videoFilename, totalTrajectories, currentTrajectoryId,
                           currentRating, ratedTrajectories, smoothnessFactor>>
      ]_vars

\* exportResults was called with a rating selected, an index rated and the
\* smoothness changed
C18_Witness ==
    /\ notices \cap {"exported", "exportError"} # {}
    /\ ~Falsy(currentRating)
    /\ ratedTrajectories # {}
    /\ smoothnessFactor # constructor.smoothnessFactor

\* C19: on a page view loaded for an index in 0..totalTrajectories-1,
\* regenerateGif does not return before its request.
C19_RegenerateWhenDefined ==
    InRangeView => ~regenerateSkipped(currentTrajectoryId)

\* C20: a step that sends a regenerate-gif request or handles its response
\* leaves ratedTrajectories and currentRating unchanged.
C20_RegenerateFrame ==
    [][(regenInflight' # regenInflight /\ phase' = "ready")
            => UNCHANGED <<ratedTrajectories, currentRating>>
      ]_vars

\* a regenerate-gif response was accepted with a rating selected, an index
\* rated and the smoothness changed
C20_Witness ==
    /\ notices = {"gifUpdated"}
    /\ gifRegenerated
    /\ ~Falsy(currentRating)
    /\ ratedTrajectories # {}
    /\ smoothnessFactor # constructor.smoothnessFactor

\* C21: currentRating is 0 (unset) or an integer in 1..5, whatever selectRating
\* was given.
C21_RatingInRange ==
    currentRating = Num(0) \/ (IsNum(currentRating) /\ currentRating.v \in 1..5)

\* C22: the load handler's setCurrentTrajectory leaves currentRating unset and
\* the submit button disabled; the button is enabled only by a step that
\* selects a rating, and on an initialised page an enabled button means a
\* rating in 1..5 is selected.
C22_SubmitNeedsRating ==
    [][/\ (phase = "constructed" /\ currentTrajectoryId' # Null)
            => (currentRating' = Num(0) /\ submitDisabled')
       /\ (phase = "ready" /\ phase' = "ready" /\ submitDisabled /\ ~submitDisabled')
            => (IsNum(currentRating') /\ currentRating'.v \in 1..5)
       /\ (currentTrajectoryId' # Null /\ ~submitDisabled')
            => (IsNum(currentRating') /\ currentRating'.v \in 1..5)
      ]_vars

\* on an initialised page a rating was selected and the submit button is enabled
C22_Witness ==
    /\ phase = "ready"
    /\ currentTrajectoryId # Null
    /\ ~submitDisabled
    /\ ~Falsy(currentRating)

\* C23: on a page view loaded for index i of a video (0 <= i < total), the
\* previous button is disabled exactly when i = 0 and the next button exactly
\* when i = totalTrajectories - 1.
C23_BoundaryButtons ==
    InRangeView
        => /\ prevDisabled <=> (currentTrajectoryId.v = 0)
           /\ nextDisabled <=> (currentTrajectoryId.v = totalTrajectories - 1)

\* the page view of the last of several trajectories
C23_Witness ==
    /\ InRangeView
    /\ currentTrajectoryId.v > 0
    /\ currentTrajectoryId.v = totalTrajectories - 1
    /\ nextDisabled
    /\ ~prevDisabled

\* C24: the completion modal is shown only with ratedTrajectories.size =
\* totalTrajectories > 0, and no step hides it again.
C24_CompletedOneWay ==
    [][/\ modalShown' => (Cardinality(ratedTrajectories') = totalTrajectories'
                          /\ totalTrajectories' > 0)
       /\ modalShown => modalShown'
      ]_vars

\* the average, in tenths, of a number with at most one decimal
Tenths(average) == average.v * (10 \div average.den)

\* C25: the label of an average in [1, 5] with one decimal is the label of
\* its range: >= 4.5 excellent, [4.0, 4.5) good, [3.0, 4.0) satisfactory,
\* [2.0, 3.0) needs improvement, < 2.0 low quality.
C25_QualityLevel ==
    qualityLevel # "none"
        => LET t == Tenths(averageRating) IN
           /\ (t >= 45) <=> (qualityLevel = "excellent")
           /\ (40 <= t /\ t < 45) <=> (qualityLevel = "good")
           /\ (30 <= t /\ t < 40) <=> (qualityLevel = "satisfactory")
           /\ (20 <= t /\ t < 30) <=> (qualityLevel = "needsImprovement")
           /\ (t < 20) <=> (qualityLevel = "low")

\* getQualityLevel was given 4.5
C25_Witness ==
    /\ averageRating = Float(45, 10)
    /\ qualityLevel = "excellent"

\* C26: a failed rate-trajectory, regenerate-gif or video-statistics request
\* (a response that is not ok, or no response) ends with a notice shown and
\* leaves ratedTrajectories and currentRating unchanged.
C26_FailuresReported ==
    [][\A response \in Responses \ {"ok"} :
          /\ (\E i \in 1..MaxRequests : submitResponse(i, response))
                => (notices' # {} /\ UNCHANGED <<ratedTrajectories, currentRating>>)
          /\ (\E i \in 1..MaxRegenerate : regenerateResponse(i, response))
                => (notices' # {} /\ UNCHANGED <<ratedTrajectories, currentRating>>)
          /\ statisticsResponse(response)
                => (notices' # {} /\ UNCHANGED <<ratedTrajectories, currentRating>>)
      ]_vars

\* C28: a step that changes smoothnessFactor on a page view sends no
\* regenerate-gif request and leaves currentTrajectoryId, currentRating and
\* ratedTrajectories unchanged; a request is added only by the step that
\* shows the notice of regenerateGif.
C28_SmoothnessFrame ==
    [][/\ (phase = "ready" /\ phase' = "ready" /\ smoothnessFactor' # smoothnessFactor)
            => UNCHANGED <<regenInflight, currentTrajectoryId, currentRating,
                           ratedTrajectories>>
       /\ (Len(regenInflight') > Len(regenInflight)) => notices' = {"gifInfo"}
      ]_vars

\* the smoothness was changed with a rating selected and an index rated, and
\* no regenerate-gif request was ever sent
C28_Witness ==
    /\ smoothnessFactor = Float(5, 10)
    /\ notices = {}
    /\ regenInflight = <<>>
    /\ ~gifRegenerated
    /\ ~Falsy(currentRating)
    /\ ratedTrajectories # {}

\* the notices of a validation error, a failed request, a failed export and a
\* navigation beyond the first or last trajectory
ErrorNotices == {"alert", "saveError", "gifError", "exportError", "first", "last"}

\* C29: a step that ends with an error notice leaves the page view ready,
\* with its index, video, selected rating, smoothness and the three buttons
\* as they were; after a failed submission the same rating can be submitted
\* again, after a failed regeneration regenerateGif sends again; and on every
\* ready page view a rating can be selected and the export called.
C29_ErrorsNotFatal ==
    /\ [][(phase = "ready" /\ phase' = "ready" /\ notices' \cap ErrorNotices # {})
            => /\ UNCHANGED <<currentTrajectoryId, videoFilename, totalTrajectories,
                              currentRating, smoothnessFactor, submitDisabled,
                              prevDisabled, nextDisabled>>
               /\ ("saveError" \in notices' /\ "saved" \notin notices')
                    => (~submitDisabled'
                        /\ ~submitRejected(currentRating', currentTrajectoryId', videoFilename'))
               /\ ("gifError" \in notices') => ~regenerateSkipped(currentTrajectoryId')
         ]_vars
    /\ [](phase = "ready"
            => /\ ENABLED (\E rating \in RatingInputs : selectRating(rating))
               /\ ENABLED exportResults)

\* a submission failed on a page view of the video; its rating is still
\* selected and the submit button enabled
C29_Witness ==
    /\ InRangeView
    /\ notices = {"saveError"}
    /\ inflight = <<>>
    /\ ~submitDisabled
    /\ ~Falsy(currentRating)

\* C30: ratedTrajectories.size is the number of distinct indices with an
\* accepted submission in the session.
C30_SizeIsDistinctAccepted ==
    Cardinality(ratedTrajectories) = Cardinality(acceptedEver)

\* C31: a timer that comes due on the page view of index i asks for index
\* i + 1 or for nothing, whatever navigation is already pending, and never
\* for an index beyond totalTrajectories - 1; the pending navigation of a
\* page view is to i - 1 or i + 1, and the next page view is loaded for it.
C31_TimersAdvanceByOne ==
    [][/\ (phase = "ready" /\ phase' = "ready" /\ timers' < timers)
            => \/ location' = location
               \/ /\ IsNum(currentTrajectoryId)
                  /\ location' = Num(currentTrajectoryId.v + 1)
                  /\ location'.v <= totalTrajectories - 1
       /\ (location' # Null)
            => /\ IsNum(currentTrajectoryId')
               /\ location' \in {Num(currentTrajectoryId'.v - 1), Num(currentTrajectoryId'.v + 1)}
       /\ (phase = "ready" /\ phase' = "constructed")
            => hidden'.trajectoryId = TemplateString(location)
      ]_vars

\* a timer came due and asked for the next index while another timer of the
\* page view is still pending
C31_Witness ==
    /\ InRangeView
    /\ location = Num(currentTrajectoryId.v + 1)
    /\ timers > 0

\* C32: the step of a skip click sends no rate-trajectory request and leaves
\* ratedTrajectories, currentRating and the pending navigation unchanged: it
\* shows its notice and starts one timer; and a timer that comes due on the
\* last trajectory shows the last-trajectory notice and asks for no navigation.
C32_SkipFrame ==
    [][/\ ("skipped" \in notices')
            => /\ UNCHANGED <<inflight, sent, ratedTrajectories, currentRating,
                              currentTrajectoryId, location>>
               /\ notices' = {"skipped"}
               /\ timers' = timers + 1
       /\ (InRangeView /\ currentTrajectoryId.v = totalTrajectories - 1
           /\ phase' = "ready" /\ timers' < timers)
            => (notices' = {"last"} /\ location' = location)
      ]_vars

\* a skip click on a page view with a rating selected and its index rated
C32_Witness ==
    /\ notices = {"skipped"}
    /\ timers > 0
    /\ ~Falsy(currentRating)
    /\ ratedTrajectories # {}

\* C33: every file that uploadAndAnalyze was called with, and whose upload
\* has not ended, is a file that handleFileSelection accepts.
C33_UploadsValidated ==
    \A i \in 1..Len(uploadInflight) : handleFileSelection(uploadInflight[i]).accepted
====
